---- MODULE Spec2Model ----
(***************************************************************************)
(* brine._cellwork (src/brine/cellwork.c): the three module functions      *)
(* cell_get_value, cell_set_value and cell_from_value over CPython cell    *)
(* objects, together with the callers that hold the cells.                 *)
(*                                                                         *)
(* The heap is the set of allocated cell objects (cells), the ob_ref slot  *)
(* of each cell and the ob_refcnt field of every object.  Value objects    *)
(* (the non-cell objects) are kept alive by one reference that the         *)
(* surrounding program owns for the whole run.  The reference count of     *)
(* Py_None and of the argument tuple are not tracked.                      *)
(***************************************************************************)
EXTENDS Integers, Sequences, FiniteSets, TLC

\* ------------------------------------------------------------------ bounds
NumVals == 2        \* number of non-cell objects the callers can pass
MaxCells == 3       \* number of addresses the allocator can hand out for cells
MaxArgs == 2        \* longest argument tuple a caller passes

\* ----------------------------------------------------------------- objects
NULL == 0
None == 0 - 1

Values == 1..NumVals
CellIds == (NumVals + 1)..(NumVals + MaxCells)
Objs == Values \cup CellIds
Holders == {"A", "B"}

VARIABLES
  cells,        \* allocated objects whose type is PyCell_Type
  ob_ref,       \* ob_ref[c]: content slot of cell c, NULL when the cell is Empty
  ob_refcnt,    \* ob_refcnt[o]: reference count of object o
  holds,        \* holds[h]: the cell holder h keeps a reference to, or NULL
  pc,           \* "idle": no call in progress; "returned": a call has returned to its caller
  last,         \* the call that has just returned (NoCall when idle)
  installed,    \* history: installed[c] is the argument of the latest create/set on c
  lastSet,      \* history: the latest successful cell_set_value: its caller, its cell,
                \* and whether it replaced a content different from its argument
  fromModule    \* history: the live cells that cell_from_value returned

vars == <<cells, ob_ref, ob_refcnt, holds, pc, last, installed, lastSet, fromModule>>

NoSet == [h |-> "-", cell |-> NULL, overwrote |-> FALSE]

NoCall == [op |-> "none", h |-> "A", argc |-> 0, first |-> NULL, cell |-> NULL,
           val |-> NULL, ret |-> NULL, exc |-> "none"]

\* the heap as one record, the form the C API operators below work on
Heap == [cells |-> cells, ref |-> ob_ref, cnt |-> ob_refcnt]

\* ------------------------------------------------------- CPython reference counting
Py_XINCREF(heap, o) ==
  IF o = NULL THEN heap ELSE [heap EXCEPT !.cnt[o] = @ + 1]

\* Py_DECREF: drop one reference; a cell whose count reaches zero is
\* deallocated (cell_dealloc), which releases its content in turn.
RECURSIVE Py_DECREF(_, _)
Py_DECREF(heap, o) ==
  LET h1 == [heap EXCEPT !.cnt[o] = @ - 1]
  IN IF h1.cnt[o] > 0 \/ o \notin heap.cells
       THEN h1
       ELSE LET content == h1.ref[o]
                h2 == [h1 EXCEPT !.cells = @ \ {o}, !.ref[o] = NULL]
            IN IF content = NULL THEN h2 ELSE Py_DECREF(h2, content)

Py_XDECREF(heap, o) ==
  IF o = NULL THEN heap ELSE Py_DECREF(heap, o)

\* ------------------------------------------------------------ CPython cell API
\* PyCell_New(obj) at address c: a new cell with one reference (the caller's),
\* whose slot is obj (possibly NULL) and owns one reference to it.
PyCell_New(heap, c, obj) ==
  Py_XINCREF([heap EXCEPT !.cells = @ \cup {c}, !.ref[c] = obj, !.cnt[c] = 1], obj)

\* PyCell_Get(op): a new reference to the content, or NULL with no exception
\* set when the cell is Empty.
PyCell_Get(heap, op) ==
  [heap |-> Py_XINCREF(heap, heap.ref[op]), ret |-> heap.ref[op]]

\* variant: the store takes over the caller's reference instead of taking its own
PyCell_Set_steals(heap, op, obj) ==
  LET oldobj == heap.ref[op]
      h2 == [heap EXCEPT !.ref[op] = obj]
  IN Py_XDECREF(h2, oldobj)

\* variant: the old content is released by clearing the slot after the store
PyCell_Set_clears(heap, op, obj) ==
  LET oldobj == heap.ref[op]
      h1 == Py_XINCREF(heap, obj)
      h2 == [h1 EXCEPT !.ref[op] = IF oldobj = NULL THEN obj ELSE NULL]
  IN Py_XDECREF(Py_XDECREF(h2, oldobj), IF oldobj = NULL THEN NULL ELSE obj)

\* PyCell_Set(op, obj): take a reference to obj, store it, release the old content.
PyCell_Set(heap, op, obj) ==
  LET oldobj == heap.ref[op]
      h1 == Py_XINCREF(heap, obj)
      h2 == [h1 EXCEPT !.ref[op] = obj]
  IN Py_XDECREF(h2, oldobj)

\* PyArg_ParseTuple(args, format): format is a sequence of "O" (any object)
\* and "O!" (an object of type PyCell_Type) items; the tuple must have
\* exactly one argument per item.
PyArg_ParseTuple(heap, args, format) ==
  /\ Len(args) = Len(format)
  /\ \A i \in 1..Len(format) : format[i] = "O!" => args[i] \in heap.cells

\* ------------------------------------------------------------ module functions
\* Each operator gives the outcome of the C function on a heap: the heap
\* after the call, the returned pointer, the exception it has set (if any)
\* and the arguments it parsed.
\* variant: no type check on the argument, a non-cell is handed back itself
get_outcome_unchecked(heap, args) ==
  IF Len(args) # 1
    THEN [heap |-> heap, ret |-> NULL, exc |-> "TypeError", cell |-> NULL, val |-> NULL]
    ELSE IF args[1] \in heap.cells
      THEN LET r == PyCell_Get(heap, args[1])
           IN [heap |-> r.heap, ret |-> r.ret, exc |-> "none", cell |-> args[1], val |-> NULL]
      ELSE [heap |-> Py_XINCREF(heap, args[1]), ret |-> args[1], exc |-> "none",
            cell |-> NULL, val |-> NULL]

\* variant: the content is moved out of the cell, which is left Empty
get_outcome_moves(heap, args) ==
  IF ~ PyArg_ParseTuple(heap, args, <<"O!">>)
    THEN [heap |-> heap, ret |-> NULL, exc |-> "TypeError", cell |-> NULL, val |-> NULL]
    ELSE [heap |-> [heap EXCEPT !.ref[args[1]] = NULL], ret |-> heap.ref[args[1]],
          exc |-> "none", cell |-> args[1], val |-> NULL]

get_outcome(heap, args) ==
  IF ~ PyArg_ParseTuple(heap, args, <<"O!">>)
    THEN [heap |-> heap, ret |-> NULL, exc |-> "TypeError", cell |-> NULL, val |-> NULL]
    ELSE LET r == PyCell_Get(heap, args[1])
         IN [heap |-> r.heap, ret |-> r.ret, exc |-> "none", cell |-> args[1], val |-> NULL]

\* variant: a Populated cell keeps its content (first write wins)
set_outcome_once(heap, args) ==
  IF ~ PyArg_ParseTuple(heap, args, <<"O!", "O">>)
    THEN [heap |-> heap, ret |-> NULL, exc |-> "TypeError", cell |-> NULL, val |-> NULL]
    ELSE [heap |-> IF heap.ref[args[1]] = NULL
                     THEN PyCell_Set(heap, args[1], args[2]) ELSE heap,
          ret |-> None, exc |-> "none", cell |-> args[1], val |-> args[2]]

\* variant: the arguments are parsed but the store is never made
set_outcome_nostore(heap, args) ==
  IF ~ PyArg_ParseTuple(heap, args, <<"O!", "O">>)
    THEN [heap |-> heap, ret |-> NULL, exc |-> "TypeError", cell |-> NULL, val |-> NULL]
    ELSE [heap |-> heap, ret |-> None, exc |-> "none", cell |-> args[1], val |-> args[2]]

set_outcome(heap, args) ==
  IF ~ PyArg_ParseTuple(heap, args, <<"O!", "O">>)
    THEN [heap |-> heap, ret |-> NULL, exc |-> "TypeError", cell |-> NULL, val |-> NULL]
    ELSE [heap |-> PyCell_Set(heap, args[1], args[2]), ret |-> None, exc |-> "none",
          cell |-> args[1], val |-> args[2]]

\* variant: the value is optional, without it the new cell is Empty
from_value_outcome_optional(heap, args, c) ==
  IF Len(args) > 1
    THEN [heap |-> heap, ret |-> NULL, exc |-> "TypeError", cell |-> NULL, val |-> NULL]
    ELSE LET v == IF Len(args) = 0 THEN NULL ELSE args[1]
         IN [heap |-> PyCell_New(heap, c, v), ret |-> c, exc |-> "none",
             cell |-> c, val |-> v]

\* variant: the new cell is made but the value is not put into it
from_value_outcome_unset(heap, args, c) ==
  IF ~ PyArg_ParseTuple(heap, args, <<"O">>)
    THEN [heap |-> heap, ret |-> NULL, exc |-> "TypeError", cell |-> NULL, val |-> NULL]
    ELSE [heap |-> PyCell_New(heap, c, NULL), ret |-> c, exc |-> "none",
          cell |-> c, val |-> args[1]]

\* variant: a live cell with the same content is handed back instead of a new one
from_value_outcome_interned(heap, args, c) ==
  IF ~ PyArg_ParseTuple(heap, args, <<"O">>)
    THEN [heap |-> heap, ret |-> NULL, exc |-> "TypeError", cell |-> NULL, val |-> NULL]
    ELSE LET same == {d \in heap.cells : heap.ref[d] = args[1]}
         IN IF same = {}
              THEN [heap |-> PyCell_New(heap, c, args[1]), ret |-> c, exc |-> "none",
                    cell |-> c, val |-> args[1]]
              ELSE LET d == CHOOSE d \in same : TRUE
                   IN [heap |-> Py_XINCREF(heap, d), ret |-> d, exc |-> "none",
                       cell |-> d, val |-> args[1]]

\* c is the address the allocator gives PyCell_New
from_value_outcome(heap, args, c) ==
  IF ~ PyArg_ParseTuple(heap, args, <<"O">>)
    THEN [heap |-> heap, ret |-> NULL, exc |-> "TypeError", cell |-> NULL, val |-> NULL]
    ELSE [heap |-> PyCell_New(heap, c, args[1]), ret |-> c, exc |-> "none",
          cell |-> c, val |-> args[1]]

\* The allocator: cell addresses are interchangeable, so the model hands out
\* the lowest free one (a freed address is handed out again).
FreeCell(heap) == CHOOSE c \in CellIds \ heap.cells : \A d \in CellIds \ heap.cells : c <= d

\* ------------------------------------------------------------------ callers
\* the objects holder h can pass: every value object and the cell it holds
Reach(h) == Values \cup ({holds[h]} \ {NULL})

RECURSIVE TuplesOf(_, _)
TuplesOf(S, n) ==
  IF n = 0 THEN {<<>>}
  ELSE {Append(t, x) : t \in TuplesOf(S, n - 1), x \in S}

ArgTuples(h) == UNION {TuplesOf(Reach(h), n) : n \in 0..MaxArgs}

First(args) == IF Len(args) = 0 THEN NULL ELSE args[1]

Returned(op, h, args, r) ==
  [op |-> op, h |-> h, argc |-> Len(args), first |-> First(args), cell |-> r.cell,
   val |-> r.val, ret |-> r.ret, exc |-> r.exc]

SetHeap(heap) ==
  /\ cells' = heap.cells
  /\ ob_ref' = heap.ref
  /\ ob_refcnt' = heap.cnt

TypeOK ==
  /\ cells \subseteq CellIds
  /\ ob_ref \in [CellIds -> Objs \cup {NULL}]
  /\ ob_refcnt \in [Objs -> Nat]
  /\ holds \in [Holders -> CellIds \cup {NULL}]
  /\ pc \in {"idle", "returned"}
  /\ installed \in [CellIds -> Objs \cup {NULL}]
  /\ lastSet \in [h : Holders \cup {"-"}, cell : CellIds \cup {NULL}, overwrote : BOOLEAN]
  /\ fromModule \subseteq cells

Init ==
  /\ cells = {}
  /\ ob_ref = [c \in CellIds |-> NULL]
  /\ ob_refcnt = [o \in Objs |-> IF o \in Values THEN 1 ELSE 0]
  /\ holds = [h \in Holders |-> NULL]
  /\ pc = "idle"
  /\ last = NoCall
  /\ installed = [c \in CellIds |-> NULL]
  /\ lastSet = NoSet
  /\ fromModule = {}

\* cell_get_value(args) called by holder h
cell_get_value(h, args) ==
  /\ pc = "idle"
  /\ LET r == get_outcome(Heap, args)
     IN /\ SetHeap(r.heap)
        /\ last' = Returned("get", h, args, r)
  /\ pc' = "returned"
  /\ UNCHANGED <<holds, installed, lastSet, fromModule>>

\* cell_set_value(args) called by holder h
cell_set_value(h, args) ==
  /\ pc = "idle"
  /\ LET r == set_outcome(Heap, args)
     IN /\ SetHeap(r.heap)
        /\ last' = Returned("set", h, args, r)
  /\ IF Len(args) = 2 /\ args[1] \in cells
       THEN /\ installed' = [installed EXCEPT ![args[1]] = args[2]]
            /\ lastSet' = [h |-> h, cell |-> args[1],
                            overwrote |-> installed[args[1]] \notin {NULL, args[2]}]
       ELSE UNCHANGED <<installed, lastSet>>
  /\ pc' = "returned"
  /\ UNCHANGED <<holds, fromModule>>

\* cell_from_value(args) called by holder h
cell_from_value(h, args) ==
  /\ pc = "idle"
  /\ cells # CellIds            \* allocation failure is not modelled
  /\ LET r == from_value_outcome(Heap, args, FreeCell(Heap))
     IN /\ SetHeap(r.heap)
        /\ last' = Returned("create", h, args, r)
        /\ IF r.ret # NULL
             THEN /\ installed' = [installed EXCEPT ![r.ret] = First(args)]
                  /\ fromModule' = fromModule \cup {r.ret}
             ELSE UNCHANGED <<installed, fromModule>>
  /\ pc' = "returned"
  /\ UNCHANGED <<holds, lastSet>>

\* the closure runtime makes an Empty cell for a variable of holder h
RuntimeNewCell(h) ==
  /\ pc = "idle"
  /\ holds[h] = NULL
  /\ cells # CellIds            \* allocation failure is not modelled
  /\ LET c == FreeCell(Heap)
     IN /\ SetHeap(PyCell_New(Heap, c, NULL))
        /\ holds' = [holds EXCEPT ![h] = c]
        /\ installed' = [installed EXCEPT ![c] = NULL]
  /\ UNCHANGED <<pc, last, lastSet, fromModule>>

\* holder h1 hands a second reference to its cell to holder h2
Share(h1, h2) ==
  /\ pc = "idle"
  /\ holds[h1] # NULL
  /\ holds[h2] = NULL
  /\ SetHeap(Py_XINCREF(Heap, holds[h1]))
  /\ holds' = [holds EXCEPT ![h2] = holds[h1]]
  /\ UNCHANGED <<pc, last, installed, lastSet, fromModule>>

\* the caller stores the returned cell in holder h: the returned reference
\* becomes the holder's
Keep(h) ==
  /\ pc = "returned"
  /\ last.ret \in cells
  /\ holds[h] = NULL
  /\ holds' = [holds EXCEPT ![h] = last.ret]
  /\ pc' = "idle"
  /\ last' = NoCall
  /\ UNCHANGED <<cells, ob_ref, ob_refcnt, installed, lastSet, fromModule>>

\* the caller discards the result (or handles the error) of the call
Drop ==
  /\ pc = "returned"
  /\ SetHeap(IF last.ret \in Objs THEN Py_DECREF(Heap, last.ret) ELSE Heap)
  /\ fromModule' = fromModule \cap cells'
  /\ installed' = [c \in CellIds |-> IF c \in cells' THEN installed[c] ELSE NULL]
  /\ lastSet' = IF lastSet.cell \in cells' THEN lastSet ELSE NoSet
  /\ pc' = "idle"
  /\ last' = NoCall
  /\ UNCHANGED holds

Next ==
  \/ \E h \in Holders : \E args \in ArgTuples(h) : cell_get_value(h, args)
  \/ \E h \in Holders : \E args \in ArgTuples(h) : cell_set_value(h, args)
  \/ \E h \in Holders : \E args \in ArgTuples(h) : cell_from_value(h, args)
  \/ \E h \in Holders : RuntimeNewCell(h)
  \/ \E h1, h2 \in Holders : Share(h1, h2)
  \/ \E h \in Holders : Keep(h)
  \/ Drop

Spec == Init /\ [][Next]_vars

\* ------------------------------------------------------------------ properties
\* a step in which one of the three module functions runs and returns
CallStep == pc = "idle" /\ pc' = "returned"

\* the call that has just returned is a cell_get_value whose argument parsed
GotCell == pc = "returned" /\ last.op = "get" /\ last.cell # NULL

\* C1: a successful cell_get_value returns exactly the value most recently
\* installed on that cell by cell_from_value or cell_set_value, and a get on a
\* cell that has had a value installed is successful.
C1_GetReturnsLastInstalled ==
  GotCell =>
    /\ last.ret # NULL => last.ret = installed[last.cell]
    /\ installed[last.cell] # NULL => last.ret # NULL

C1_Witness ==
  GotCell /\ last.ret # NULL /\ lastSet.cell = last.cell /\ lastSet.overwrote

C3_EmptyGetRaisesUnbound ==
  (GotCell /\ ob_ref[last.cell] = NULL) =>
    /\ last.ret = NULL
    /\ last.exc \notin {"none", "TypeError"}

\* the latest cell_set_value was made by one holder of a cell, and the
\* cell_get_value that has just returned was made on it by another holder
AliasedGet ==
  /\ GotCell
  /\ lastSet.cell = last.cell
  /\ lastSet.h # last.h
  /\ holds[last.h] = last.cell
  /\ holds[lastSet.h] = last.cell

\* C4: when holders A and B hold the same cell and A's cell_set_value stored
\* v into it, the next cell_get_value on it by B returns v.
C4_SetVisibleThroughAlias ==
  AliasedGet =>
    /\ last.ret = installed[last.cell]
    /\ last.ret # NULL

C4_Witness ==
  AliasedGet /\ last.ret \in Values

\* C5: cell_get_value and cell_set_value called with a first argument that is
\* not a cell fail with TypeError and leave every cell as it was.
C5_NonCellRejected ==
  [][(/\ CallStep
      /\ last'.op \in {"get", "set"}
      /\ last'.argc >= 1
      /\ last'.first \notin cells) =>
       /\ last'.ret = NULL
       /\ last'.exc = "TypeError"
       /\ UNCHANGED <<cells, ob_ref>>]_vars

C5_Witness ==
  /\ pc = "returned"
  /\ last.op = "get"
  /\ last.argc = 1
  /\ last.first \in Values
  /\ last.exc = "TypeError"
  /\ \E c \in cells : ob_ref[c] # NULL

\* C6: cell_get_value, whether it succeeds or fails, leaves the state and the
\* content of every cell unchanged.
C6_GetIsPure ==
  [][(CallStep /\ last'.op = "get") => UNCHANGED <<cells, ob_ref>>]_vars

C6_Witness ==
  GotCell /\ last.ret = NULL /\ \E c \in cells : ob_ref[c] # NULL

\* C7: cell_from_value returns a cell that is none of the existing cells, also
\* when an existing cell has the same content, and leaves the existing cells as
\* they were; cell_set_value changes only the cell it is given.
C7_CellsAreDistinct ==
  [][CallStep =>
       /\ (last'.op = "create" /\ last'.ret # NULL) =>
            /\ last'.ret \notin cells
            /\ last'.ret \in cells'
            /\ \A c \in cells : c \in cells' /\ ob_ref'[c] = ob_ref[c]
       /\ (last'.op = "set" /\ last'.cell # NULL) =>
            \A c \in cells \ {last'.cell} : c \in cells' /\ ob_ref'[c] = ob_ref[c]]_vars

C7_Witness ==
  /\ pc = "returned"
  /\ last.op = "create"
  /\ last.ret \in cells
  /\ \E c \in cells \ {last.ret} : ob_ref[c] = ob_ref[last.ret]

\* C8: the content of a live cell changes only in a cell_set_value on that
\* cell, which leaves it Populated; a Populated cell stays Populated as long as
\* it lives, and cell_get_value on it succeeds.
C8_PopulatedStaysPopulated ==
  /\ [][\A c \in cells \cap cells' :
          /\ ob_ref[c] # NULL => ob_ref'[c] # NULL
          /\ ob_ref'[c] # ob_ref[c] =>
               /\ CallStep
               /\ last'.op = "set"
               /\ last'.cell = c
               /\ ob_ref'[c] = last'.val]_vars
  /\ []((GotCell /\ ob_ref[last.cell] # NULL) => last.ret # NULL)

C8_Witness ==
  GotCell /\ last.ret # NULL /\ last.cell \notin fromModule

\* the references to object o that somebody owns
Owned(o) ==
  (IF o \in Values THEN 1 ELSE 0)
  + Cardinality({c \in cells : ob_ref[c] = o})
  + Cardinality({h \in Holders : holds[h] = o})
  + (IF pc = "returned" /\ last.ret = o THEN 1 ELSE 0)

RefAccounting ==
  \A o \in Objs :
    /\ o \in Values \cup cells => ob_refcnt[o] = Owned(o)
    /\ o \in CellIds \ cells => ob_refcnt[o] = 0 /\ ob_ref[o] = NULL

\* C9: every reference count is the number of owners, a cell owning one
\* reference to its current content and none to an earlier one;
\* cell_set_value takes one reference to the new content and releases one to
\* the old, cell_get_value gives its caller one new reference.
C9_OwnershipAccounting ==
  /\ []RefAccounting
  /\ [][(CallStep /\ last'.op = "set" /\ last'.cell # NULL) =>
          LET old == ob_ref[last'.cell]
              new == last'.val
          IN \A o \in Objs :
               ob_refcnt'[o] = ob_refcnt[o] + (IF o = new THEN 1 ELSE 0)
                                            - (IF o = old THEN 1 ELSE 0)]_vars
  /\ [][(CallStep /\ last'.op = "get" /\ last'.ret # NULL) =>
          \A o \in Objs :
            ob_refcnt'[o] = ob_refcnt[o] + (IF o = last'.ret THEN 1 ELSE 0)]_vars

C9_Witness ==
  /\ pc = "returned"
  /\ last.op = "set"
  /\ last.cell # NULL
  /\ lastSet.overwrote
  /\ ob_refcnt[last.val] >= 2

\* C10: a cell that cell_from_value returned is Populated in every state, so
\* cell_get_value on it never fails; the Empty cells are not the module's.
C10_ModuleCellsPopulated ==
  /\ \A c \in fromModule : ob_ref[c] # NULL
  /\ (GotCell /\ last.cell \in fromModule) => last.ret # NULL

C10_Witness ==
  /\ GotCell
  /\ last.cell \in fromModule
  /\ lastSet.cell = last.cell
  /\ \E c \in cells : ob_ref[c] = NULL

====
